---- MODULE Spec2Model ----
\* Model of the feeds application of minrss (src/feeds): the Feed / FeedItem
\* store, URL validation, fetch_feed_content, create_feed_items, the request
\* handlers of the API (views.py) and the admin (admin.py).
\*
\* Requests run concurrently.  Every database statement of a handler is an
\* atomic step of its own; the code between two statements is folded into
\* the step of the statement that follows it, the code after the last one into
\* the step of the last one.  A handler's last step leaves its response in resp
\* (pc = "done"); the request then returns (Return) before anything else
\* happens.  The feedparser library is the environment: a call of
\* feedparser.parse yields any outcome of ParseOutcomes (a result, or one of
\* the exceptions the handlers name).
EXTENDS Integers, Sequences, FiniteSets, TLC

VARIABLES
    feeds,      \* Feed table: pk -> row
    items,      \* FeedItem table: set of rows, each with its own pk
    lastid,     \* the last primary key each table has given out
    now,        \* the clock read by timezone.now()
    pc,         \* per request: position in its handler
    fobj,       \* per request: the handler's in-memory Feed or FeedItem instance
    req,        \* per request: the data of the write it has yet to validate
    todo,       \* per request: entries of feed.entries not yet visited
    staged,     \* per request: the list `items` built by fetch_feed_content
    created,    \* per request: created_count of create_feed_items
    resp,       \* per request: the response it returns
    call,       \* per request: bookkeeping about the running call (history)
    born,       \* what the creation of the newest feed saw of its remote (history)
    reported    \* sum of the created counts of all finished calls (history)

vars == <<feeds, items, lastid, now, pc, fobj, req, todo, staged, created, resp, call, born, reported>>

-----------------------------------------------------------------------------
\* Bounds of the model.

MaxEntries == 2     \* longest feed.entries a parse returns
MaxTime == 2        \* the clock runs over 1..MaxTime

Procs == {"r1", "r2"}       \* requests that can be in flight together

-----------------------------------------------------------------------------
\* Optional values: None is Python's None / a missing attribute or key.

None == <<>>
Some(x) == <<x>>
Val(o) == o[1]
Opt(S) == {None} \cup {Some(x) : x \in S}

\* Python truthiness of an optional string: None and '' are falsy.
Truthy(o) == o # None /\ Val(o) # ""

Range(s) == {s[i] : i \in 1..Len(s)}

SeqsUpTo(S, n) == UNION {[1..k -> S] : k \in 0..n}

-----------------------------------------------------------------------------
\* Inputs.

\* A URL as urlparse splits it (feed_utils.py:34): scheme, netloc and what
\* follows them.  The last one is a host typed without a scheme, which
\* urlparse takes for a path.
URLs ==
    { [scheme |-> "https", netloc |-> "a.example", path |-> ""],
      [scheme |-> "ftp",   netloc |-> "c.example", path |-> ""],
      [scheme |-> "http",  netloc |-> "",          path |-> ""],
      [scheme |-> "",      netloc |-> "",          path |-> "b.example"] }

VALID_SCHEMES == {"http", "https"}

Titles == {"T1", "T2"}

\* Date strings of an entry.  GoodDate is a well-formed date before the
\* clock's first value (time 0); BadDate is a string that is no date.
GoodDate == "Mon, 01 Jan 2024 00:00:00 GMT"
BadDate == "not a date"

\* One raw entry: the keys the code reads, each present (Some) or missing (None).
\* content, when present, is a list of elements, each of them its `value`
\* (Some) or an element without that attribute (None).
Entry(id, link, title, summary, published, updated) ==
    [ id |-> id, guid |-> None, link |-> link, title |-> title,
      summary |-> summary, description |-> None, content |-> None,
      published |-> published, updated |-> updated ]

\* The entries remote feeds serve in this model.
EntryA == Entry(Some("a"), Some("l1"), Some("Hello"), Some("Hi"), Some(GoodDate), None)
EntryA2 == Entry(Some("a"), None, Some("Hello again"), None, None, Some(GoodDate))
EntryB == Entry(Some("b"), None, None, None, None, Some(GoodDate))
EntryUndated == Entry(None, Some("l2"), Some("Linked"), None, None, None)
EntryAnon == Entry(None, None, Some("Anonymous"), Some("Hi"), Some(GoodDate), None)
EntryLate == Entry(Some("c"), None, Some("Late"), None, Some(BadDate), None)

EntryPool == {EntryA, EntryA2, EntryB, EntryUndated, EntryAnon, EntryLate}

\* Two entries with one id and no date field.
EntryHello == Entry(Some("a"), None, Some("Hello"), Some("Hi"), None, None)
EntryHelloAgain == Entry(Some("a"), None, Some("Hello again"), None, None, None)

\* id present but empty, link set.
EntryEmptyId == Entry(Some(""), Some("l3"), Some("Blank"), None, Some(GoodDate), None)
\* published does not parse, updated does.
EntryFallback == Entry(Some("d"), None, Some("Dated"), None, Some(BadDate), Some(GoodDate))
\* structured content, summary and description all present.
EntryFull ==
    [ Entry(Some("f"), None, Some("Full"), Some("Sum"), Some(GoodDate), None)
        EXCEPT !.description = Some("Desc"), !.content = Some(<<Some("Body")>>) ]
\* structured content only.
EntryBody ==
    [ Entry(Some("g"), None, Some("Body only"), None, Some(GoodDate), None)
        EXCEPT !.content = Some(<<Some("Body")>>) ]
\* structured content whose first element has no `value`.
EntryBroken ==
    [ Entry(Some("x"), None, Some("Broken"), None, Some(GoodDate), None)
        EXCEPT !.content = Some(<<None>>) ]

\* The title-carrying part of a parse result: an optional top-level title and an
\* optional `feed` attribute with an optional title.
Untitled == [title |-> None, feed |-> Some([title |-> None])]

TitleShapes ==
    { Untitled,
      [title |-> None, feed |-> None],
      [title |-> None, feed |-> Some([title |-> Some("T1")])],
      [title |-> None, feed |-> Some([title |-> Some("T2")])],
      [title |-> Some("T2"), feed |-> Some([title |-> Some("T1")])] }

\* What feedparser.parse(url, timeout=FEED_TIMEOUT) does: it raises (exc names
\* the class the handlers distinguish) or returns a result, flagged malformed
\* (bozo) or not.
ParseRaises ==
    { [exc |-> e, bozo |-> FALSE, title |-> None, feed |-> None, entries |-> <<>>]
        : e \in {"FeedParserHTTPError", "FeedParserHTTPRedirect", "Exception"} }

ParseReturns(pool, shapes) ==
    { [exc |-> "none", bozo |-> b, title |-> t.title, feed |-> t.feed, entries |-> es]
        : b \in BOOLEAN, t \in shapes, es \in SeqsUpTo(pool, MaxEntries) }

ParseOutcomes(pool, shapes) == ParseRaises \cup ParseReturns(pool, shapes)

-----------------------------------------------------------------------------
\* feed_utils.py: the pure parts.

\* validate_feed_url: the returned (is_valid, error_message) tuple.
validate_feed_url(url, po) ==
    IF url.scheme = "" \/ url.scheme \notin VALID_SCHEMES
    THEN <<FALSE, Some("URL must start with http:// or https://")>>
    ELSE IF url.netloc = ""
    THEN <<FALSE, Some("Invalid URL format")>>
    ELSE IF po.exc = "FeedParserHTTPError" THEN <<FALSE, Some("HTTP error")>>
    ELSE IF po.exc = "FeedParserHTTPRedirect" THEN <<FALSE, Some("Too many redirects")>>
    ELSE IF po.exc = "Exception" THEN <<FALSE, Some("Unexpected error")>>
    ELSE IF po.bozo THEN <<FALSE, Some("Feed parsing error")>>
    ELSE IF po.entries = <<>> THEN <<FALSE, Some("Feed contains no entries")>>
    ELSE <<TRUE, None>>

\* extract_feed_title
extract_feed_title(po) ==
    IF po.title # None THEN po.title
    ELSE IF po.feed # None /\ Val(po.feed).title # None THEN Val(po.feed).title
    ELSE None

\* extract_entry_guid: id, else guid, else entry.get('link', '').
extract_entry_guid(entry) ==
    IF entry.id # None THEN Val(entry.id)
    ELSE IF entry.guid # None THEN Val(entry.guid)
    ELSE IF entry.link # None THEN Val(entry.link) ELSE ""

\* dict.get(key, default) on an optional field.
Get(field, default) == IF field # None THEN field ELSE default

\* The instant a date string denotes, or None when it denotes none.
DateOf(s) == IF s = GoodDate THEN Some(0) ELSE None

\* feedparser._parse_date(date_str) (feed_utils.py:91): a time.struct_time
\* for a string the library reads, None for one it cannot read.  (A build
\* of the library without the attribute raises AttributeError here, which
\* parse_date catches like the exception of make_aware.)
lib_parse_date(s) ==
    IF DateOf(s) # None THEN Some([kind |-> "struct_time", time |-> Val(DateOf(s))])
    ELSE None

\* timezone.make_aware(value) raises on a value that is not a naive datetime.
make_aware_raises(value) == value.kind # "datetime"

\* parse_date: None for a missing or empty string; the date make_aware
\* returns for what the library parsed; the current time when the library
\* reads nothing or an exception was raised (feed_utils.py:94-98).
parse_date(date_str, t) ==
    IF ~Truthy(date_str) THEN None
    ELSE LET parsed_date == lib_parse_date(Val(date_str))
         IN  IF parsed_date # None /\ ~make_aware_raises(Val(parsed_date))
             THEN Some(Val(parsed_date).time)
             ELSE Some(t)

\* The content of an entry (feed_utils.py:142-144).
EntryContent(entry) ==
    LET c == Get(entry.summary, Get(entry.description, Some("")))
    IN  IF ~Truthy(c) /\ entry.content # None
        THEN (IF Val(entry.content) # <<>> THEN Val(Val(entry.content)[1]) ELSE "")
        ELSE Val(c)

\* Processing the entry raises inside the loop's try block: the only
\* expression of feed_utils.py:132-153 that can raise on an entry of this
\* shape is entry.content[0].value, evaluated when summary and description
\* give nothing and the first content element has no `value`.
ExtractRaises(entry) ==
    /\ ~Truthy(Get(entry.summary, Get(entry.description, Some(""))))
    /\ entry.content # None
    /\ Val(entry.content) # <<>>
    /\ Val(entry.content)[1] = None

\* The item dictionary built for one entry (feed_utils.py:147-152).
ItemDict(entry, t) ==
    [ kind |-> "dict",
      title |-> Val(Get(entry.title, Some("Untitled"))),
      content |-> EntryContent(entry),
      published_at |-> parse_date(Get(entry.published, entry.updated), t),
      guid |-> extract_entry_guid(entry) ]

-----------------------------------------------------------------------------
\* The store (models.py).

\* A Feed instance in memory: the row's columns plus its primary key.
Instance(pk, row) ==
    [ kind |-> "Feed", pk |-> pk, url |-> row.url, title |-> row.title,
      last_fetched |-> row.last_fetched, added_at |-> row.added_at ]

\* Model.save() of an instance writes every column of its row.
Row(obj) ==
    [ url |-> obj.url, title |-> obj.title, last_fetched |-> obj.last_fetched,
      added_at |-> obj.added_at ]

\* The table with row at pk, written over the row that is there or added.
Put(pk, row) == [f \in DOMAIN feeds \cup {pk} |-> IF f = pk THEN row ELSE feeds[f]]

\* The UNIQUE constraint of Feed.url (models.py:6) lets obj be saved: no
\* other row holds its url.
SaveOk(obj) == \A g \in DOMAIN feeds : g # obj.pk => feeds[g].url # obj.url

\* The instance after obj.save(): the save is an UPDATE of every column of
\* the row and, when that finds no row, an INSERT, on which added_at
\* (auto_now_add, models.py:9) is set to the current time.
Stored(obj) == IF obj.pk \in DOMAIN feeds THEN obj ELSE [obj EXCEPT !.added_at = now]

\* The table after an obj.save() that the constraint lets through.
Save(obj) == Put(obj.pk, Row(Stored(obj)))

ItemsOf(pk) == {r \in items : r.feed = pk}

\* FeedItem.objects.filter(feed=feed_obj, guid=guid).exists()
Exists(pk, guid) == \E r \in items : r.feed = pk /\ r.guid = guid

\* The table without its uniqueness constraint.
UniqueOff(pk, guid) == TRUE

\* unique_together = ['feed', 'guid'] (models.py:40)
UniqueOk(pk, guid) == ~Exists(pk, guid)

\* FeedItem.objects.create succeeds: published_at is not NULL, the Feed row
\* it refers to is there and the uniqueness constraint holds.
InsertOk(pk, item) ==
    /\ item.published_at # None
    /\ pk \in DOMAIN feeds
    /\ UniqueOk(pk, item.guid)

\* A new row that is born read.
NewItemRead(pk, item) ==
    [ id |-> lastid.item + 1, feed |-> pk, guid |-> item.guid,
      title |-> item.title, content |-> item.content,
      published_at |-> Val(item.published_at), is_read |-> TRUE,
      created_at |-> now ]

NewItem(pk, item) ==
    [ id |-> lastid.item + 1, feed |-> pk, guid |-> item.guid,
      title |-> item.title, content |-> item.content,
      published_at |-> Val(item.published_at), is_read |-> FALSE,
      created_at |-> now ]

\* The URLField / unique=True validators of Feed.url that the serializer runs
\* before validate_url (models.py:6).
URLFieldOk(url) ==
    /\ url.scheme \in {"http", "https", "ftp", "ftps"}
    /\ url.netloc # ""
    /\ \A f \in DOMAIN feeds : feeds[f].url # url

\* FeedSerializer.validate_url: `is_valid` is the tuple validate_feed_url
\* returns, and `not is_valid` tests that tuple, which is never empty.
validate_url_raises(url, po) == Len(validate_feed_url(url, po)) = 0

\* fetch_feed_content(arg) reads arg.url, in its try block and in each of
\* its exception handlers: a Feed instance has the attribute, a string does
\* not.
HasUrlAttr(arg) == arg.kind = "Feed"

-----------------------------------------------------------------------------
\* History bookkeeping (not program state).

\* op: the handler; alone: no other request has worked on the same feed since
\* this one began; first: the feed had no item when it began; follows: it is
\* the first sync after the feed's creation and fetched the entries the
\* creation saw; parsed: its parse returned a clean result, with n distinct
\* guids; wrote: it has written to the store; marked: it has set last_fetched;
\* conflict: an INSERT of it violated the uniqueness constraint; raised: the
\* processing of one of its entries raised; v, vin: what
\* validate_feed_url returned on which parse outcome; q: the parameters of a
\* request that is not a creation or a refresh.
NoCall ==
    [ op |-> "none", alone |-> FALSE, first |-> FALSE, follows |-> FALSE,
      parsed |-> FALSE, n |-> 0, wrote |-> FALSE, marked |-> FALSE,
      conflict |-> FALSE, raised |-> FALSE, v |-> None, vin |-> None, q |-> None ]

NoResp == [kind |-> "none", new_items |-> 0, error |-> None]

\* An error response of the handler (status 400).
ErrResp(msg) == [kind |-> "error", new_items |-> 0, error |-> Some(msg)]

\* The handler raised exc: the request ends with a server error.
Raised(exc) == [kind |-> "raised", new_items |-> 0, error |-> Some(exc)]

Active(q, f) ==
    /\ pc[q] \notin {"idle", "done"}
    /\ fobj[q] # None
    /\ Val(fobj[q]).kind = "Feed"
    /\ Val(fobj[q]).pk = f

\* Guids of the entries that identify themselves.
Guids(es) == {extract_entry_guid(es[i]) : i \in 1..Len(es)} \ {""}

\* What the bookkeeping keeps of the parse a validation or a sync saw.
Seen(po) ==
    [ returned |-> po.exc = "none", bozo |-> po.bozo,
      has_title |-> Truthy(extract_feed_title(po)),
      has_entries |-> po.entries # <<>> ]

\* Request p starts working on feed f with bookkeeping c: the requests
\* already working on f are no longer alone, and neither is p.
Joined(p, f, c) ==
    [q \in Procs |->
        IF q = p THEN [c EXCEPT !.alone = \A r \in Procs \ {p} : ~Active(r, f)]
        ELSE IF Active(q, f) THEN [call[q] EXCEPT !.alone = FALSE]
        ELSE call[q]]

\* No response is waiting to be returned.
Quiet == \A q \in Procs : pc[q] # "done"

\* The handler of p answers r.
Finish(p, r) ==
    /\ pc' = [pc EXCEPT ![p] = "done"]
    /\ resp' = [resp EXCEPT ![p] = r]
    /\ reported' = reported + created[p]

\* A parse that returned a result not flagged malformed.
Clean(po) == po.exc = "none" /\ ~po.bozo

-----------------------------------------------------------------------------
\* State machine.

Init ==
    /\ feeds = <<>>
    /\ items = {}
    /\ lastid = [feed |-> 0, item |-> 0]
    /\ now = 1
    /\ pc = [p \in Procs |-> "idle"]
    /\ fobj = [p \in Procs |-> None]
    /\ req = [p \in Procs |-> None]
    /\ todo = [p \in Procs |-> <<>>]
    /\ staged = [p \in Procs |-> <<>>]
    /\ created = [p \in Procs |-> 0]
    /\ resp = [p \in Procs |-> NoResp]
    /\ call = [p \in Procs |-> NoCall]
    /\ born = None
    /\ reported = 0

\* The clock advances.
Tick ==
    /\ Quiet
    /\ now < MaxTime
    /\ now' = now + 1
    /\ UNCHANGED <<feeds, items, lastid, pc, fobj, req, todo, staged, created, resp, call,
                   born, reported>>

\* The request returns its response.
Return(p) ==
    /\ pc[p] = "done"
    /\ pc' = [pc EXCEPT ![p] = "idle"]
    /\ fobj' = [fobj EXCEPT ![p] = None]
    /\ req' = [req EXCEPT ![p] = None]
    /\ todo' = [todo EXCEPT ![p] = <<>>]
    /\ staged' = [staged EXCEPT ![p] = <<>>]
    /\ created' = [created EXCEPT ![p] = 0]
    /\ resp' = [resp EXCEPT ![p] = NoResp]
    /\ call' = [call EXCEPT ![p] = NoCall]
    /\ UNCHANGED <<feeds, items, lastid, now, born, reported>>

\* Requests that have validated the data of a new Feed and not yet saved it.
Validated == {q \in Procs : pc[q] \in {"c_save", "a_save"} /\ Val(fobj[q]).pk = 0}

\* FeedViewSet.create, serializer.is_valid(): the field validators of url
\* (with the SELECT of the uniqueness validator), then validate_url on the
\* outcome po of its fetch.  The validated data wait in an instance that has
\* no primary key yet (pk 0).  maxfeeds bounds the table.
CreateRequest(p, url, title, po, maxfeeds) ==
    /\ Quiet
    /\ pc[p] = "idle"
    /\ lastid.feed + Cardinality(Validated) < maxfeeds
    /\ UNCHANGED <<feeds, items, lastid, now, req, todo, staged, created, born>>
    /\ IF ~URLFieldOk(url) \/ validate_url_raises(url, po)
       THEN /\ Finish(p, ErrResp("invalid url"))
            /\ call' = [call EXCEPT ![p] = [NoCall EXCEPT !.op = "create"]]
            /\ UNCHANGED fobj
       ELSE LET row == [ url |-> url, title |-> title, last_fetched |-> None,
                         added_at |-> now ]
            IN  /\ fobj' = [fobj EXCEPT ![p] = Some(Instance(0, row))]
                /\ pc' = [pc EXCEPT ![p] = "c_save"]
                /\ call' = [call EXCEPT ![p] =
                        [NoCall EXCEPT !.op = "create",
                                       !.parsed = Clean(po),
                                       !.n = Cardinality(Guids(po.entries)),
                                       !.v = Some(validate_feed_url(url, po)),
                                       !.vin = Some(Seen(po)),
                                       !.q = Some([entries |-> po.entries])]]
                /\ UNCHANGED <<resp, reported>>

\* FeedViewSet.create, serializer.save() (views.py:22): the INSERT of the
\* Feed, with added_at set to the current time.  A row that has taken the
\* url since the validation makes it raise IntegrityError.
CreateSave(p) ==
    /\ Quiet
    /\ pc[p] = "c_save"
    /\ UNCHANGED <<items, now, req, todo, staged, created>>
    /\ LET pk == lastid.feed + 1
           obj == [Val(fobj[p]) EXCEPT !.pk = pk]
       IN  IF ~SaveOk(obj)
           THEN /\ Finish(p, Raised("IntegrityError"))
                /\ UNCHANGED <<feeds, lastid, fobj, call, born>>
           ELSE /\ feeds' = Save(obj)
                /\ lastid' = [lastid EXCEPT !.feed = pk]
                /\ fobj' = [fobj EXCEPT ![p] = Some(Stored(obj))]
                /\ pc' = [pc EXCEPT ![p] = "c_fetch"]
                /\ call' = [call EXCEPT ![p].alone = TRUE, ![p].first = TRUE,
                                        ![p].wrote = TRUE]
                /\ born' = IF call[p].parsed
                           THEN Some([feed |-> pk, entries |-> Val(call[p].q).entries])
                           ELSE None
                /\ UNCHANGED <<resp, reported>>

\* FeedViewSet.create, `items = fetch_feed_content(feed.url)` (views.py:24):
\* the argument is the URL string, so `feed_obj.url` raises AttributeError in
\* the try block, the `except Exception` handler catches it and raises it
\* again when it formats its log line with `feed_obj.url`
\* (feed_utils.py:172-174).  The exception leaves the handler: no Response,
\* create_feed_items and mark_as_fetched are not reached.
CreateFetch(p) ==
    /\ Quiet
    /\ pc[p] = "c_fetch"
    /\ ~HasUrlAttr([kind |-> "str"])
    /\ Finish(p, Raised("AttributeError"))
    /\ UNCHANGED <<feeds, items, lastid, now, req, fobj, todo, staged, created, call, born>>

\* FeedViewSet.refresh, self.get_object(): the Feed row is read into memory.
RefreshBegin(p, f) ==
    /\ Quiet
    /\ pc[p] = "idle"
    /\ f \in DOMAIN feeds
    /\ fobj' = [fobj EXCEPT ![p] = Some(Instance(f, feeds[f]))]
    /\ pc' = [pc EXCEPT ![p] = "fetch"]
    /\ call' = Joined(p, f, [NoCall EXCEPT !.op = "refresh", !.first = (ItemsOf(f) = {})])
    /\ UNCHANGED <<feeds, items, lastid, now, req, todo, staged, created, resp, born, reported>>

\* The entry loop of fetch_feed_content has td left to visit and st staged:
\* it goes on, or (feed_utils.py:159-162, views.py:40-48) it is over and with
\* nothing staged fetch_feed_content returns the error "No new items found in
\* feed", which refresh answers with status 400, and with something staged
\* refresh goes on to create_feed_items.
AfterEntry(p, td, st) ==
    /\ todo' = [todo EXCEPT ![p] = IF td = <<>> THEN st ELSE td]
    /\ staged' = [staged EXCEPT ![p] = st]
    /\ IF td # <<>>
       THEN /\ pc' = [pc EXCEPT ![p] = "scan"]
            /\ UNCHANGED <<resp, reported>>
       ELSE IF st = <<>>
       THEN Finish(p, ErrResp("No new items found in feed"))
       ELSE /\ pc' = [pc EXCEPT ![p] = "persist"]
            /\ UNCHANGED <<resp, reported>>

\* fetch_feed_content up to the entry loop (feed_utils.py:111-128): the parse,
\* the bozo check and the title update with its save().  A save() that the
\* UNIQUE constraint of url refuses raises inside the try block and the call
\* returns the error of the `except Exception` handler.
Fetch(p, po) ==
    /\ Quiet
    /\ pc[p] = "fetch"
    /\ UNCHANGED <<items, lastid, now, req, created>>
    /\ LET obj == Val(fobj[p])
           f == obj.pk
           ft == extract_feed_title(po)
           settitle == ~Truthy(obj.title) /\ Truthy(ft)
           obj2 == IF settitle THEN [obj EXCEPT !.title = ft] ELSE obj
       IN  /\ born' = IF born # None /\ Val(born).feed = f THEN None ELSE born
           /\ IF ~Clean(po)
              THEN /\ Finish(p, ErrResp(IF po.exc # "none" THEN po.exc
                                        ELSE "Feed parsing error"))
                   /\ call' = [call EXCEPT ![p].vin = Some(Seen(po))]
                   /\ UNCHANGED <<feeds, fobj, todo, staged>>
              ELSE IF settitle /\ ~SaveOk(obj2)
              THEN /\ Finish(p, ErrResp("Exception"))
                   /\ fobj' = [fobj EXCEPT ![p] = Some(obj2)]
                   /\ call' = [call EXCEPT ![p].parsed = TRUE,
                                           ![p].n = Cardinality(Guids(po.entries))]
                   /\ UNCHANGED <<feeds, todo, staged>>
              ELSE /\ feeds' = IF settitle THEN Save(obj2) ELSE feeds
                   /\ fobj' = [fobj EXCEPT ![p] =
                                Some(IF settitle THEN Stored(obj2) ELSE obj2)]
                   /\ call' = [call EXCEPT ![p].parsed = TRUE,
                                           ![p].n = Cardinality(Guids(po.entries)),
                                           ![p].wrote = settitle,
                                           ![p].follows =
                                                /\ call[p].alone
                                                /\ born # None
                                                /\ Val(born).feed = f
                                                /\ Val(born).entries = po.entries]
                   /\ AfterEntry(p, po.entries, <<>>)

\* One pass of the entry loop (feed_utils.py:129-157): guid, existence query,
\* item dictionary; an exception raised on the way is logged and the loop
\* goes on with the next entry.
ScanEntry(p) ==
    /\ Quiet
    /\ pc[p] = "scan"
    /\ todo[p] # <<>>
    /\ LET entry == Head(todo[p])
           f == Val(fobj[p]).pk
           guid == extract_entry_guid(entry)
           raises == guid # "" /\ ~Exists(f, guid) /\ ExtractRaises(entry)
           skip == guid = "" \/ Exists(f, guid) \/ raises
       IN  /\ AfterEntry(p, Tail(todo[p]),
                         IF skip THEN staged[p] ELSE Append(staged[p], ItemDict(entry, now)))
           /\ call' = [call EXCEPT ![p].raised = @ \/ raises]
    /\ UNCHANGED <<feeds, items, lastid, now, req, fobj, created, born>>

\* create_feed_items with the try block around the loop instead of inside it:
\* the first failing INSERT ends the loop.
PersistAbort(p) ==
    /\ Quiet
    /\ pc[p] = "persist"
    /\ todo[p] # <<>>
    /\ LET item == Head(todo[p])
           pk == Val(fobj[p]).pk
       IN  IF InsertOk(pk, item)
           THEN /\ items' = items \cup {NewItem(pk, item)}
                /\ lastid' = [lastid EXCEPT !.item = @ + 1]
                /\ created' = [created EXCEPT ![p] = @ + 1]
                /\ call' = [call EXCEPT ![p].wrote = TRUE]
                /\ todo' = [todo EXCEPT ![p] = Tail(@)]
           ELSE /\ call' = [call EXCEPT ![p].conflict =
                                @ \/ ~UniqueOk(pk, item.guid)]
                /\ todo' = [todo EXCEPT ![p] = <<>>]
                /\ UNCHANGED <<items, lastid, created>>
    /\ UNCHANGED <<feeds, now, req, pc, fobj, staged, resp, born, reported>>

\* One pass of the loop of create_feed_items (feed_utils.py:190-202): the
\* INSERT; any exception is logged and the loop goes on.
Persist(p) ==
    /\ Quiet
    /\ pc[p] = "persist"
    /\ todo[p] # <<>>
    /\ LET item == Head(todo[p])
           pk == Val(fobj[p]).pk
       IN  IF InsertOk(pk, item)
           THEN /\ items' = items \cup {NewItem(pk, item)}
                /\ lastid' = [lastid EXCEPT !.item = @ + 1]
                /\ created' = [created EXCEPT ![p] = @ + 1]
                /\ call' = [call EXCEPT ![p].wrote = TRUE]
           ELSE /\ call' = [call EXCEPT ![p].conflict =
                                @ \/ ~UniqueOk(pk, item.guid)]
                /\ UNCHANGED <<items, lastid, created>>
    /\ todo' = [todo EXCEPT ![p] = Tail(@)]
    /\ UNCHANGED <<feeds, now, req, pc, fobj, staged, resp, born, reported>>

\* create_feed_items returns; feed.mark_as_fetched() sets last_fetched and
\* saves the instance; the handler answers (views.py:45-47).  A save() that
\* the UNIQUE constraint of url refuses raises out of the handler.
Mark(p) ==
    /\ Quiet
    /\ pc[p] = "persist"
    /\ todo[p] = <<>>
    /\ LET obj == [Val(fobj[p]) EXCEPT !.last_fetched = Some(now)]
       IN  /\ fobj' = [fobj EXCEPT ![p] = Some(IF SaveOk(obj) THEN Stored(obj) ELSE obj)]
           /\ IF SaveOk(obj)
              THEN /\ feeds' = Save(obj)
                   /\ Finish(p, [kind |-> "refreshed", new_items |-> created[p],
                                 error |-> None])
                   /\ call' = [call EXCEPT ![p].wrote = TRUE, ![p].marked = TRUE]
              ELSE /\ Finish(p, Raised("IntegrityError"))
                   /\ UNCHANGED <<feeds, call>>
    /\ UNCHANGED <<items, lastid, now, req, todo, staged, created, born>>

\* The answer of a request that is neither a creation nor a refresh.
OkResp == [kind |-> "ok", new_items |-> 0, error |-> None]

\* Request p begins as operation op with the parameters q.
Begun(p, op, q) == [call EXCEPT ![p] = [NoCall EXCEPT !.op = op, !.q = Some(q)]]

\* The field validators of Feed.url on an update of feed f: as URLFieldOk,
\* the uniqueness check leaving out the instance itself.
URLFieldOkFor(f, url) ==
    /\ url.scheme \in {"http", "https", "ftp", "ftps"}
    /\ url.netloc # ""
    /\ \A g \in DOMAIN feeds : g # f => feeds[g].url # url

\* The rows of qs with is_read = False get is_read = True
\* (queryset.filter(is_read=False).update(is_read=True)).
MarkRead(qs) ==
    {IF r \in qs /\ ~r.is_read THEN [r EXCEPT !.is_read = TRUE] ELSE r : r \in items}

\* FeedItemViewSet.get_queryset: every item, narrowed by the is_read query
\* parameter when the request has one.  No other query parameter is read.
get_queryset(q) ==
    IF q.is_read = None THEN items
    ELSE {r \in items : r.is_read = (Val(q.is_read) = "true")}

\* A FeedItem instance in memory (id 0: not saved yet) and the row it saves.
ItemInstance(r) ==
    [ kind |-> "FeedItem", id |-> r.id, feed |-> r.feed, guid |-> r.guid,
      title |-> r.title, content |-> r.content, published_at |-> r.published_at,
      is_read |-> r.is_read, created_at |-> r.created_at ]

ItemRow(obj) ==
    [ id |-> obj.id, feed |-> obj.feed, guid |-> obj.guid, title |-> obj.title,
      content |-> obj.content, published_at |-> obj.published_at,
      is_read |-> obj.is_read, created_at |-> obj.created_at ]

\* A FeedItem() built with the defaults of the model fields (models.py:25-32).
BlankItem ==
    [ kind |-> "FeedItem", id |-> 0, feed |-> 0, guid |-> "", title |-> "",
      content |-> "", published_at |-> 0, is_read |-> FALSE, created_at |-> now ]

\* The data of a write of a FeedItem: each field carried (Some) or not (None).
NoEdit ==
    [ feed |-> None, guid |-> None, title |-> None, content |-> None,
      published_at |-> None, is_read |-> None ]

\* The instance with the fields that data carry set on it; the serializer
\* drops guid, which it declares read-only (serializers.py:43), the admin
\* form does not.
Edited(obj, data, with_guid) ==
    [ obj EXCEPT !.feed = IF data.feed # None THEN Val(data.feed) ELSE @,
                 !.title = IF data.title # None THEN Val(data.title) ELSE @,
                 !.content = IF data.content # None THEN Val(data.content) ELSE @,
                 !.published_at = IF data.published_at # None
                                  THEN Val(data.published_at) ELSE @,
                 !.is_read = IF data.is_read # None THEN Val(data.is_read) ELSE @,
                 !.guid = IF with_guid /\ data.guid # None THEN Val(data.guid) ELSE @ ]

\* The required fields of a new FeedItem are carried and not blank.
Required(data, with_guid) ==
    /\ data.feed # None
    /\ Truthy(data.title)
    /\ Truthy(data.content)
    /\ data.published_at # None
    /\ with_guid => Truthy(data.guid)

\* The constraints of the FeedItem table let obj be saved: its Feed is there
\* and no other row has its (feed, guid).
ItemSaveOk(obj) ==
    /\ obj.feed \in DOMAIN feeds
    /\ \A r \in items : (r.feed = obj.feed /\ r.guid = obj.guid) => r.id = obj.id

\* The Feed table without f, and the FeedItem table without the items of f
\* (on_delete=CASCADE, models.py:26).
FeedsWithout(f) == [g \in DOMAIN feeds \ {f} |-> feeds[g]]

\* The instance with the keys set on it that the data of a write of a Feed
\* carry (data.url and data.title are None when the request has not the key).
FeedEdited(obj, data) ==
    [ obj EXCEPT !.url = IF data.url # None THEN Val(data.url) ELSE @,
                 !.title = IF data.title # None THEN data.title ELSE @ ]

\* FeedViewSet.update (PUT, partial = FALSE) / partial_update (PATCH)
\* (ModelViewSet), self.get_object(): the Feed is read into memory.  A PUT
\* without url is answered "This field is required." (url is the one
\* required field of the serializer).  Other data without url are validated
\* without a statement and set on the instance; data with url wait for the
\* SELECT of the uniqueness validator.
FeedUpdateBegin(p, f, data, partial) ==
    /\ Quiet
    /\ pc[p] = "idle"
    /\ f \in DOMAIN feeds
    /\ call' = Begun(p, "feed_update", [feed |-> f, url |-> data.url, title |-> data.title,
                                        partial |-> partial])
    /\ req' = [req EXCEPT ![p] = Some(data)]
    /\ UNCHANGED <<feeds, items, lastid, now, todo, staged, created, born>>
    /\ IF ~partial /\ data.url = None
       THEN Finish(p, ErrResp("This field is required.")) /\ UNCHANGED fobj
       ELSE /\ fobj' = [fobj EXCEPT ![p] =
                        Some(IF data.url = None THEN FeedEdited(Instance(f, feeds[f]), data)
                             ELSE Instance(f, feeds[f]))]
            /\ pc' = [pc EXCEPT ![p] = IF data.url = None THEN "u_save" ELSE "u_valid"]
            /\ UNCHANGED <<resp, reported>>

\* FeedViewSet.update, serializer.is_valid() of data that carry url: the
\* field validators of url (with the SELECT of the uniqueness validator,
\* which leaves out the instance), then validate_url on the outcome po of its
\* fetch; the data are set on the instance.
FeedUpdateValidate(p, po) ==
    /\ Quiet
    /\ pc[p] = "u_valid"
    /\ LET obj == Val(fobj[p])
           data == Val(req[p])
       IN  IF ~URLFieldOkFor(obj.pk, Val(data.url)) \/ validate_url_raises(Val(data.url), po)
           THEN Finish(p, ErrResp("invalid url")) /\ UNCHANGED fobj
           ELSE /\ fobj' = [fobj EXCEPT ![p] = Some(FeedEdited(obj, data))]
                /\ pc' = [pc EXCEPT ![p] = "u_save"]
                /\ UNCHANGED <<resp, reported>>
    /\ UNCHANGED <<feeds, items, lastid, now, req, todo, staged, created, call, born>>

\* FeedViewSet.update, serializer.save(): the instance is saved; a row that
\* has taken its url since the validation makes the save raise.
FeedUpdateSave(p) ==
    /\ Quiet
    /\ pc[p] = "u_save"
    /\ LET obj == Val(fobj[p])
       IN  IF SaveOk(obj)
           THEN /\ feeds' = Save(obj)
                /\ fobj' = [fobj EXCEPT ![p] = Some(Stored(obj))]
                /\ Finish(p, OkResp)
           ELSE /\ Finish(p, Raised("IntegrityError"))
                /\ UNCHANGED <<feeds, fobj>>
    /\ UNCHANGED <<items, lastid, now, req, todo, staged, created, call, born>>

\* FeedViewSet.destroy (ModelViewSet), self.get_object(): the Feed is read
\* into memory.
FeedDestroyBegin(p, f) ==
    /\ Quiet
    /\ pc[p] = "idle"
    /\ f \in DOMAIN feeds
    /\ fobj' = [fobj EXCEPT ![p] = Some(Instance(f, feeds[f]))]
    /\ pc' = [pc EXCEPT ![p] = "f_delete"]
    /\ call' = Begun(p, "feed_destroy", [feed |-> f])
    /\ UNCHANGED <<feeds, items, lastid, now, req, todo, staged, created, resp, born, reported>>

\* FeedViewSet.destroy, instance.delete(): the items of the Feed (by cascade)
\* and its row are deleted, in one transaction; a row that is gone already
\* is no error.
FeedDestroy(p) ==
    /\ Quiet
    /\ pc[p] = "f_delete"
    /\ feeds' = FeedsWithout(Val(fobj[p]).pk)
    /\ items' = items \ ItemsOf(Val(fobj[p]).pk)
    /\ Finish(p, OkResp)
    /\ UNCHANGED <<lastid, now, fobj, req, todo, staged, created, call, born>>

\* FeedViewSet.mark_all_read, feed = self.get_object() (views.py:33): the
\* Feed is read into memory.
FeedMarkAllReadBegin(p, f) ==
    /\ Quiet
    /\ pc[p] = "idle"
    /\ f \in DOMAIN feeds
    /\ fobj' = [fobj EXCEPT ![p] = Some(Instance(f, feeds[f]))]
    /\ pc' = [pc EXCEPT ![p] = "fm_update"]
    /\ call' = Begun(p, "feed_mark_all_read", [feed |-> f])
    /\ UNCHANGED <<feeds, items, lastid, now, req, todo, staged, created, resp, born, reported>>

\* FeedViewSet.mark_all_read, the UPDATE of the unread items of the feed and
\* the answer (views.py:34-35); a feed that is gone by now has no items.
FeedMarkAllRead(p) ==
    /\ Quiet
    /\ pc[p] = "fm_update"
    /\ items' = MarkRead(ItemsOf(Val(fobj[p]).pk))
    /\ Finish(p, OkResp)
    /\ UNCHANGED <<feeds, lastid, now, fobj, req, todo, staged, created, call, born>>

\* FeedItemViewSet.mark_all_read (views.py:75-78) of a request with the query
\* parameters q (is_read, feed: the declared filterset_fields).  The handler
\* updates self.get_queryset() and does not call filter_queryset, so the
\* filter backends, and with them the feed parameter, do not apply.
ItemsMarkAllRead(p, q) ==
    /\ Quiet
    /\ pc[p] = "idle"
    /\ items' = MarkRead(get_queryset(q))
    /\ call' = Begun(p, "items_mark_all_read", q)
    /\ Finish(p, OkResp)
    /\ UNCHANGED <<feeds, lastid, now, req, fobj, todo, staged, created, born>>

\* The instance after instance.save() of a FeedItem: a new instance gets the
\* next primary key; created_at (auto_now_add, models.py:31) is set to the
\* current time when the save is an INSERT, that is for a new instance and for
\* a stored one whose row is no longer there.
ItemStored(obj) ==
    LET id == IF obj.id = 0 THEN lastid.item + 1 ELSE obj.id
    IN  [ obj EXCEPT !.id = id,
                     !.created_at = IF \E r \in items : r.id = id THEN @ ELSE now ]

\* Request p saves the FeedItem instance obj and answers: an UPDATE of every
\* column of its row, an INSERT when there is no such row; a constraint that
\* does not hold makes the save raise.
SaveItem(p, obj) ==
    LET new == ItemStored(obj)
    IN  IF ItemSaveOk(new)
        THEN /\ items' = {r \in items : r.id # new.id} \cup {ItemRow(new)}
             /\ lastid' = [lastid EXCEPT !.item = IF obj.id = 0 THEN new.id ELSE @]
             /\ fobj' = [fobj EXCEPT ![p] = Some(new)]
             /\ Finish(p, OkResp)
        ELSE /\ Finish(p, Raised("IntegrityError"))
             /\ UNCHANGED <<items, lastid, fobj>>

\* The caller of FeedItem.mark_as_read reads item i into the instance it
\* calls the method on.
ItemMarkAsReadBegin(p, i) ==
    /\ Quiet
    /\ pc[p] = "idle"
    /\ \E r \in items : r.id = i
    /\ fobj' = [fobj EXCEPT ![p] = Some(ItemInstance(CHOOSE r \in items : r.id = i))]
    /\ pc' = [pc EXCEPT ![p] = "m_save"]
    /\ call' = Begun(p, "mark_as_read", [item |-> i])
    /\ UNCHANGED <<feeds, items, lastid, now, req, todo, staged, created, resp, born, reported>>

\* FeedItem.mark_as_read (models.py:46-48): is_read is set on the instance
\* and the instance is saved, every column of it.
ItemMarkAsRead(p) ==
    /\ Quiet
    /\ pc[p] = "m_save"
    /\ SaveItem(p, [Val(fobj[p]) EXCEPT !.is_read = TRUE])
    /\ UNCHANGED <<feeds, now, req, todo, staged, created, call, born>>

\* FeedItemViewSet.update (views.py:80-81), self.get_object(): item i is read
\* into memory.  Data without feed are validated without a statement and set
\* on the instance; data with feed wait for the SELECT of that Feed.
ItemUpdateBegin(p, i, data) ==
    /\ Quiet
    /\ pc[p] = "idle"
    /\ \E r \in items : r.id = i
    /\ call' = Begun(p, "item_update", [item |-> i, data |-> data])
    /\ req' = [req EXCEPT ![p] = Some(data)]
    /\ LET obj == ItemInstance(CHOOSE r \in items : r.id = i)
       IN  fobj' = [fobj EXCEPT ![p] =
                        Some(IF data.feed = None THEN Edited(obj, data, FALSE) ELSE obj)]
    /\ pc' = [pc EXCEPT ![p] = IF data.feed = None THEN "i_save" ELSE "i_valid"]
    /\ UNCHANGED <<feeds, items, lastid, now, todo, staged, created, resp, born, reported>>

\* FeedItemViewSet.update (views.py:82-83), is_valid() of data that carry
\* feed: the field looks the Feed up; the data are set on the instance.
ItemUpdateValidate(p) ==
    /\ Quiet
    /\ pc[p] = "i_valid"
    /\ LET data == Val(req[p])
       IN  IF Val(data.feed) \notin DOMAIN feeds
           THEN Finish(p, ErrResp("invalid data")) /\ UNCHANGED fobj
           ELSE /\ fobj' = [fobj EXCEPT ![p] = Some(Edited(Val(fobj[p]), data, FALSE))]
                /\ pc' = [pc EXCEPT ![p] = "i_save"]
                /\ UNCHANGED <<resp, reported>>
    /\ UNCHANGED <<feeds, items, lastid, now, req, todo, staged, created, call, born>>

\* FeedItemViewSet.create (ModelViewSet), up to the save: the data are
\* validated (the field looks the Feed up) and a new instance is built from
\* them; guid is read-only in the serializer and keeps the empty default of
\* the field.
ItemCreateBegin(p, data, maxitems) ==
    /\ Quiet
    /\ pc[p] = "idle"
    /\ lastid.item < maxitems
    /\ call' = Begun(p, "item_create", [data |-> data])
    /\ UNCHANGED <<feeds, items, lastid, now, req, todo, staged, created, born>>
    /\ IF ~Required(data, FALSE) \/ Val(data.feed) \notin DOMAIN feeds
       THEN Finish(p, ErrResp("invalid data")) /\ UNCHANGED fobj
       ELSE /\ fobj' = [fobj EXCEPT ![p] = Some(Edited(BlankItem, data, FALSE))]
            /\ pc' = [pc EXCEPT ![p] = "i_save"]
            /\ UNCHANGED <<resp, reported>>

\* instance.save() of a FeedItem (perform_update, views.py:84-85;
\* perform_create; the admin's save_model).
ItemSave(p) ==
    /\ Quiet
    /\ pc[p] = "i_save"
    /\ SaveItem(p, Val(fobj[p]))
    /\ UNCHANGED <<feeds, now, req, todo, staged, created, call, born>>

\* FeedItemViewSet.destroy (ModelViewSet), self.get_object(): the item is
\* read into memory.
ItemDestroyBegin(p, i) ==
    /\ Quiet
    /\ pc[p] = "idle"
    /\ \E r \in items : r.id = i
    /\ fobj' = [fobj EXCEPT ![p] = Some(ItemInstance(CHOOSE r \in items : r.id = i))]
    /\ pc' = [pc EXCEPT ![p] = "i_delete"]
    /\ call' = Begun(p, "item_destroy", [item |-> i])
    /\ UNCHANGED <<feeds, items, lastid, now, req, todo, staged, created, resp, born, reported>>

\* FeedItemViewSet.destroy, instance.delete(): the row of the item is
\* deleted; a row that is gone already is no error.
ItemDestroy(p) ==
    /\ Quiet
    /\ pc[p] = "i_delete"
    /\ items' = {r \in items : r.id # Val(fobj[p]).id}
    /\ Finish(p, OkResp)
    /\ UNCHANGED <<feeds, lastid, now, fobj, req, todo, staged, created, call, born>>

\* forms.URLField.to_python, the form field the admin gives Feed.url: a value
\* without a scheme gets "http", and a value without a netloc takes what
\* urlsplit read as its path for one.
to_python(url) ==
    LET scheme == IF url.scheme = "" THEN "http" ELSE url.scheme
    IN  IF url.netloc = ""
        THEN [scheme |-> scheme, netloc |-> url.path, path |-> ""]
        ELSE [url EXCEPT !.scheme = scheme]

\* FeedAdmin, the add view up to the save (admin.py:20-23: url is editable
\* when there is no object yet): the form cleans url with to_python and
\* validates it as the URLField of the model does, uniqueness included;
\* validate_feed_url is not called.
AdminFeedAddBegin(p, url, title, maxfeeds) ==
    /\ Quiet
    /\ pc[p] = "idle"
    /\ lastid.feed + Cardinality(Validated) < maxfeeds
    /\ call' = Begun(p, "admin_feed_add", [url |-> url, title |-> title])
    /\ UNCHANGED <<feeds, items, lastid, now, req, todo, staged, created, born>>
    /\ IF ~URLFieldOk(to_python(url))
       THEN Finish(p, ErrResp("invalid url")) /\ UNCHANGED fobj
       ELSE /\ fobj' = [fobj EXCEPT ![p] = Some(Instance(0,
                            [ url |-> to_python(url), title |-> title,
                              last_fetched |-> None, added_at |-> now ]))]
            /\ pc' = [pc EXCEPT ![p] = "a_save"]
            /\ UNCHANGED <<resp, reported>>

\* FeedAdmin, the change view of an existing Feed up to the save: the row is
\* read into memory; url, added_at and last_fetched are read-only
\* (admin.py:12, 20-23) and the title is set.
AdminFeedChangeBegin(p, f, title) ==
    /\ Quiet
    /\ pc[p] = "idle"
    /\ f \in DOMAIN feeds
    /\ fobj' = [fobj EXCEPT ![p] = Some([Instance(f, feeds[f]) EXCEPT !.title = title])]
    /\ pc' = [pc EXCEPT ![p] = "a_save"]
    /\ call' = Begun(p, "admin_feed_change", [feed |-> f, title |-> title])
    /\ UNCHANGED <<feeds, items, lastid, now, req, todo, staged, created, resp, born, reported>>

\* FeedAdmin, the save of the add and change views: obj.save().
AdminFeedSave(p) ==
    /\ Quiet
    /\ pc[p] = "a_save"
    /\ LET old == Val(fobj[p])
           obj == IF old.pk = 0 THEN [old EXCEPT !.pk = lastid.feed + 1] ELSE old
       IN  IF SaveOk(obj)
           THEN /\ feeds' = Save(obj)
                /\ lastid' = [lastid EXCEPT !.feed = IF old.pk = 0 THEN obj.pk ELSE @]
                /\ fobj' = [fobj EXCEPT ![p] = Some(Stored(obj))]
                /\ Finish(p, OkResp)
           ELSE /\ Finish(p, Raised("IntegrityError"))
                /\ UNCHANGED <<feeds, lastid, fobj>>
    /\ UNCHANGED <<items, now, req, todo, staged, created, call, born>>

\* FeedAdmin, the delete view: the Feed is read into memory.
AdminFeedDeleteBegin(p, f) ==
    /\ Quiet
    /\ pc[p] = "idle"
    /\ f \in DOMAIN feeds
    /\ fobj' = [fobj EXCEPT ![p] = Some(Instance(f, feeds[f]))]
    /\ pc' = [pc EXCEPT ![p] = "af_delete"]
    /\ call' = Begun(p, "admin_feed_delete", [feed |-> f])
    /\ UNCHANGED <<feeds, items, lastid, now, req, todo, staged, created, resp, born, reported>>

\* FeedAdmin, the delete view, obj.delete(): the items of the Feed (by
\* cascade) and its row are deleted.
AdminFeedDelete(p) ==
    /\ Quiet
    /\ pc[p] = "af_delete"
    /\ feeds' = FeedsWithout(Val(fobj[p]).pk)
    /\ items' = items \ ItemsOf(Val(fobj[p]).pk)
    /\ Finish(p, OkResp)
    /\ UNCHANGED <<lastid, now, fobj, req, todo, staged, created, call, born>>

\* The form of FeedItemAdmin has a value in each required field: title,
\* content and guid are declared without blank=True (models.py:27-30).
FormRequiredOk(obj) == obj.title # "" /\ obj.content # "" /\ obj.guid # ""

\* The form of FeedItemAdmin (every field but created_at is editable,
\* admin.py:30) finds the Feed it was given.
FormFeedOk(obj) == obj.feed \in DOMAIN feeds

\* validate_unique of the form: no other row has the (feed, guid) of obj.
FormUniqueOk(obj) ==
    \A r \in items : (r.feed = obj.feed /\ r.guid = obj.guid) => r.id = obj.id

\* FeedItemAdmin, the first statement of the add view (i = 0) and of the
\* change view of item i.  The change view reads the item into memory.  The
\* add view has nothing to read: its form wants the required fields and
\* looks the Feed up.
AdminItemBegin(p, i, data, maxitems) ==
    /\ Quiet
    /\ pc[p] = "idle"
    /\ i = 0 \/ \E r \in items : r.id = i
    /\ i = 0 => lastid.item < maxitems
    /\ call' = Begun(p, "admin_item_save", [item |-> i, data |-> data])
    /\ req' = [req EXCEPT ![p] = Some(data)]
    /\ UNCHANGED <<feeds, items, lastid, now, todo, staged, created, born>>
    /\ IF i # 0
       THEN /\ fobj' = [fobj EXCEPT ![p] =
                            Some(ItemInstance(CHOOSE r \in items : r.id = i))]
            /\ pc' = [pc EXCEPT ![p] = "ai_feed"]
            /\ UNCHANGED <<resp, reported>>
       ELSE IF ~Required(data, TRUE) \/ ~FormFeedOk(Edited(BlankItem, data, TRUE))
       THEN Finish(p, ErrResp("invalid data")) /\ UNCHANGED fobj
       ELSE /\ fobj' = [fobj EXCEPT ![p] = Some(Edited(BlankItem, data, TRUE))]
            /\ pc' = [pc EXCEPT ![p] = "ai_unique"]
            /\ UNCHANGED <<resp, reported>>

\* FeedItemAdmin, the change view: the form cleans every field (one that it
\* leaves alone is submitted with the value the item has), wants a value in
\* the required ones and looks the Feed up; the data are set on the instance.
AdminItemFeed(p) ==
    /\ Quiet
    /\ pc[p] = "ai_feed"
    /\ LET obj == Edited(Val(fobj[p]), Val(req[p]), TRUE)
       IN  IF ~FormRequiredOk(obj) \/ ~FormFeedOk(obj)
           THEN Finish(p, ErrResp("invalid data")) /\ UNCHANGED fobj
           ELSE /\ fobj' = [fobj EXCEPT ![p] = Some(obj)]
                /\ pc' = [pc EXCEPT ![p] = "ai_unique"]
                /\ UNCHANGED <<resp, reported>>
    /\ UNCHANGED <<feeds, items, lastid, now, req, todo, staged, created, call, born>>

\* FeedItemAdmin, add and change view: the SELECT of validate_unique on
\* (feed, guid); the save follows.
AdminItemUnique(p) ==
    /\ Quiet
    /\ pc[p] = "ai_unique"
    /\ IF ~FormUniqueOk(Val(fobj[p]))
       THEN Finish(p, ErrResp("invalid data"))
       ELSE /\ pc' = [pc EXCEPT ![p] = "i_save"]
            /\ UNCHANGED <<resp, reported>>
    /\ UNCHANGED <<feeds, items, lastid, now, fobj, req, todo, staged, created, call, born>>

\* FeedItemAdmin, the delete view: item i is read into memory.
AdminItemDeleteBegin(p, i) ==
    /\ Quiet
    /\ pc[p] = "idle"
    /\ \E r \in items : r.id = i
    /\ fobj' = [fobj EXCEPT ![p] = Some(ItemInstance(CHOOSE r \in items : r.id = i))]
    /\ pc' = [pc EXCEPT ![p] = "ai_delete"]
    /\ call' = Begun(p, "admin_item_delete", [item |-> i])
    /\ UNCHANGED <<feeds, items, lastid, now, req, todo, staged, created, resp, born, reported>>

\* FeedItemAdmin, the delete view, obj.delete().
AdminItemDelete(p) ==
    /\ Quiet
    /\ pc[p] = "ai_delete"
    /\ items' = {r \in items : r.id # Val(fobj[p]).id}
    /\ Finish(p, OkResp)
    /\ UNCHANGED <<feeds, lastid, now, fobj, req, todo, staged, created, call, born>>

\* FeedItemAdmin.mark_as_read / mark_as_unread (admin.py:38-46) on the
\* selected items sel: queryset.update(is_read=value).
AdminItemsMark(p, sel, value) ==
    /\ Quiet
    /\ pc[p] = "idle"
    /\ sel # {}
    /\ sel \subseteq {r.id : r \in items}
    /\ items' = {IF r.id \in sel THEN [r EXCEPT !.is_read = value] ELSE r : r \in items}
    /\ call' = Begun(p, "admin_items_mark", [sel |-> sel, value |-> value])
    /\ Finish(p, OkResp)
    /\ UNCHANGED <<feeds, lastid, now, req, fobj, todo, staged, created, born>>

\* The steps of the requests sc.procs, creating feeds from sc.urls with the
\* titles sc.titles (at most sc.maxfeeds of them) and fetching the parse
\* outcomes sc.pos.
Step(sc) ==
    \/ \E p \in sc.procs : Return(p)
    \/ \E p \in sc.procs, url \in sc.urls, title \in sc.titles, po \in sc.pos :
            CreateRequest(p, url, title, po, sc.maxfeeds)
    \/ \E p \in sc.procs : CreateSave(p)
    \/ \E p \in sc.procs : CreateFetch(p)
    \/ \E p \in sc.procs : \E f \in DOMAIN feeds : RefreshBegin(p, f)
    \/ \E p \in sc.procs, po \in sc.pos : Fetch(p, po)
    \/ \E p \in sc.procs : ScanEntry(p)
    \/ \E p \in sc.procs : Persist(p)
    \/ \E p \in sc.procs : Mark(p)

\* One request at a time on one feed while the clock runs: every URL, every
\* kind of entry in untitled feeds, every kind of title in feeds of one entry.
SeqPool == {EntryA, EntryB, EntryUndated, EntryAnon}

SeqScope ==
    [ procs |-> {"r1"}, urls |-> URLs, titles |-> {None}, maxfeeds |-> 1,
      pos |-> ParseOutcomes(SeqPool, {Untitled}) \cup ParseOutcomes({EntryA}, TitleShapes) ]

Next == Tick \/ Step(SeqScope)

Spec == Init /\ [][Next]_vars

\* Two requests in flight on one feed, entries with two guids.  Two
\* creations can race for the one URL; one of them gets the feed.
RaceScope ==
    [ procs |-> Procs, urls |-> {CHOOSE u \in URLs : u.scheme = "https"},
      titles |-> {None}, maxfeeds |-> 2,
      pos |-> ParseOutcomes({EntryA, EntryB}, {Untitled}) ]

NextRace == Step(RaceScope)

SpecRace == Init /\ [][NextRace]_vars

\* Two requests in flight on one feed, feeds with every kind of title.
TitleScope ==
    [ procs |-> Procs, urls |-> {CHOOSE u \in URLs : u.scheme = "https"},
      titles |-> {None}, maxfeeds |-> 1,
      pos |-> ParseOutcomes({EntryA}, TitleShapes) ]

NextTitle == Step(TitleScope)

SpecTitle == Init /\ [][NextTitle]_vars

\* One request at a time on one feed, the clock standing still: entries that
\* share a guid, dated and undated, and an entry whose processing raises
\* among others.
EntriesPool == {EntryA, EntryA2, EntryHello, EntryHelloAgain, EntryFull, EntryBroken}

EntriesScope ==
    [ procs |-> {"r1"}, urls |-> {CHOOSE u \in URLs : u.scheme = "https"},
      titles |-> {None}, maxfeeds |-> 1,
      pos |-> ParseOutcomes(EntriesPool, {Untitled}) ]

NextEntries == Step(EntriesScope)

SpecEntries == Init /\ [][NextEntries]_vars

\* The same with entries of every shape of guid, content and date fields.
FieldsPool ==
    {EntryA, EntryEmptyId, EntryFallback, EntryFull, EntryBody, EntryBroken}

FieldsScope ==
    [ procs |-> {"r1"}, urls |-> {CHOOSE u \in URLs : u.scheme = "https"},
      titles |-> {None}, maxfeeds |-> 1,
      pos |-> ParseOutcomes(FieldsPool, {Untitled}) ]

NextFields == Step(FieldsScope)

SpecFields == Init /\ [][NextFields]_vars

\* The read-status operations of the requests sc.procs.
ReadStep(sc) ==
    \/ \E p \in sc.procs : \E f \in DOMAIN feeds : FeedMarkAllReadBegin(p, f)
    \/ \E p \in sc.procs : FeedMarkAllRead(p)
    \/ \E p \in sc.procs, is_read \in Opt({"true", "false"}) :
            \E feed \in Opt(DOMAIN feeds) :
                ItemsMarkAllRead(p, [is_read |-> is_read, feed |-> feed])
    \/ \E p \in sc.procs : \E r \in items : ItemMarkAsReadBegin(p, r.id)
    \/ \E p \in sc.procs : ItemMarkAsRead(p)
    \/ \E p \in sc.procs, value \in BOOLEAN :
            \E sel \in SUBSET {r.id : r \in items} : AdminItemsMark(p, sel, value)

\* The ModelViewSet operations of the requests sc.procs on feeds and items.
\* Items are written with the data sc.edits, to any feed, stored or not.  The
\* requests that delete an item arrive while fewer than sc.maxitems primary
\* keys have been given out (the bound on the items created afterwards).
ApiStep(sc) ==
    \/ \E p \in sc.procs, url \in Opt(sc.urls), title \in Opt(sc.newtitles) :
            \E f \in DOMAIN feeds, partial \in BOOLEAN :
                FeedUpdateBegin(p, f, [url |-> url, title |-> title], partial)
    \/ \E p \in sc.procs, po \in sc.pos : FeedUpdateValidate(p, po)
    \/ \E p \in sc.procs : FeedUpdateSave(p)
    \/ \E p \in sc.procs : \E f \in DOMAIN feeds : FeedDestroyBegin(p, f)
    \/ \E p \in sc.procs : FeedDestroy(p)
    \/ \E p \in sc.procs, d \in sc.edits :
            \E r \in items, feed \in Opt(1..sc.maxfeeds) :
                ItemUpdateBegin(p, r.id, [d EXCEPT !.feed = feed])
    \/ \E p \in sc.procs : ItemUpdateValidate(p)
    \/ \E p \in sc.procs, d \in sc.edits :
            \E feed \in Opt(1..sc.maxfeeds) :
                ItemCreateBegin(p, [d EXCEPT !.feed = feed], sc.maxitems)
    \/ \E p \in sc.procs : ItemSave(p)
    \/ \E p \in sc.procs : \E r \in items :
            lastid.item < sc.maxitems /\ ItemDestroyBegin(p, r.id)
    \/ \E p \in sc.procs : ItemDestroy(p)

\* The steps of the admin requests of sc.procs; deletions of items as in ApiStep.
AdminStep(sc) ==
    \/ \E p \in sc.procs, url \in sc.urls, title \in Opt(sc.newtitles) :
            AdminFeedAddBegin(p, url, title, sc.maxfeeds)
    \/ \E p \in sc.procs, title \in sc.newtitles :
            \E f \in DOMAIN feeds : AdminFeedChangeBegin(p, f, Some(title))
    \/ \E p \in sc.procs : AdminFeedSave(p)
    \/ \E p \in sc.procs : ItemSave(p)
    \/ \E p \in sc.procs : \E f \in DOMAIN feeds : AdminFeedDeleteBegin(p, f)
    \/ \E p \in sc.procs : AdminFeedDelete(p)
    \/ \E p \in sc.procs, d \in sc.edits :
            \E i \in {0} \cup {r.id : r \in items}, feed \in Opt(1..sc.maxfeeds) :
                AdminItemBegin(p, i, [d EXCEPT !.feed = feed], sc.maxitems)
    \/ \E p \in sc.procs : AdminItemFeed(p)
    \/ \E p \in sc.procs : AdminItemUnique(p)
    \/ \E p \in sc.procs : \E r \in items :
            lastid.item < sc.maxitems /\ AdminItemDeleteBegin(p, r.id)
    \/ \E p \in sc.procs : AdminItemDelete(p)

\* The data of the writes of items: the read flag alone, and every other
\* field.
Edits ==
    { [NoEdit EXCEPT !.is_read = Some(TRUE)],
      [NoEdit EXCEPT !.title = Some("Changed"), !.content = Some("New"),
                     !.published_at = Some(0), !.guid = Some("z")] }

\* One request at a time on two feeds, the clock standing still: syncs and
\* the read-status operations; entries with one guid in two versions.
ReadScope ==
    [ procs |-> {"r1"}, urls |-> {u \in URLs : u.netloc # "" /\ u.scheme # ""},
      titles |-> {None}, maxfeeds |-> 2,
      pos |-> ParseOutcomes({EntryA, EntryA2}, {Untitled}) ]

NextReads == Step(ReadScope) \/ ReadStep(ReadScope)

SpecReads == Init /\ [][NextReads]_vars

\* One request at a time on one feed, the clock standing still: syncs, the
\* read-status operations, writes and deletions through the API and the
\* admin.
ApiScope ==
    [ procs |-> {"r1"}, urls |-> {u \in URLs : u.netloc # "" \/ u.path # ""},
      titles |-> {None}, newtitles |-> {"T1"}, maxfeeds |-> 1, maxitems |-> 2,
      edits |-> Edits,
      pos |-> ParseOutcomes({EntryA, EntryA2}, {Untitled}) ]

NextApi ==
    Step(ApiScope) \/ ReadStep(ApiScope) \/ ApiStep(ApiScope) \/ AdminStep(ApiScope)

SpecApi == Init /\ [][NextApi]_vars

-----------------------------------------------------------------------------
\* Properties.

Done(p) == pc[p] = "done"

Pk(p) == Val(fobj[p]).pk

RECURSIVE SumCreated(_)
SumCreated(S) ==
    IF S = {} THEN 0
    ELSE LET p == CHOOSE q \in S : TRUE
         IN  created[p] + SumCreated(S \ {p})

\* A staged item that only the uniqueness constraint can keep out of the table.
Insertable(item) == item.published_at # None

\* C1: no two FeedItems have the same (feed, guid), whatever the interleaving
\* of the syncs of a feed and however often an entry is fetched again.
UniqueFeedGuid ==
    \A r1 \in items, r2 \in items :
        (r1.feed = r2.feed /\ r1.guid = r2.guid) => r1 = r2

\* Two syncs overlapped on the feed and an INSERT of one was refused.
UniqueFeedGuidWitness ==
    \E p \in Procs : pc[p] = "persist" /\ call[p].conflict /\ ~call[p].alone

\* C3: a sync that loses an INSERT to the uniqueness constraint answers without
\* error, with the number of rows it created; every staged item it has passed
\* is in the table whoever inserted it; and the counts of all calls add up to
\* the number of rows in the table.
RaceLoserContinues ==
    /\ \A p \in Procs :
          (Done(p) /\ call[p].conflict) =>
              /\ resp[p].kind = "refreshed"
              /\ resp[p].error = None
              /\ resp[p].new_items = created[p]
    /\ \A p \in Procs :
          (pc[p] = "persist" \/ (Done(p) /\ call[p].marked)) =>
              \A i \in 1..(Len(staged[p]) - Len(todo[p])) :
                  Insertable(staged[p][i]) => Exists(Pk(p), staged[p][i].guid)
    /\ reported + SumCreated({p \in Procs : pc[p] \notin {"idle", "done"}})
          = Cardinality(items)

\* A sync that overlapped another answers having lost one INSERT and won one.
RaceLoserWitness ==
    \E p \in Procs :
        /\ Done(p) /\ call[p].op = "refresh"
        /\ call[p].conflict /\ ~call[p].alone
        /\ Len(staged[p]) = 2 /\ staged[p][1].guid # staged[p][2].guid
        /\ created[p] = 1

\* The URL passes validate_feed_url's own checks of scheme and host.
WellFormed(url) == url.scheme \in VALID_SCHEMES /\ url.netloc # ""

\* Request p is a creation that has saved its Feed.
Saved(p) == call[p].op = "create" /\ fobj[p] # None /\ Val(fobj[p]).pk # 0

\* Entries that the store can hold once their guid is new: each one that
\* identifies itself carries a date.
AllDated(es) ==
    \A i \in 1..Len(es) :
        extract_entry_guid(es[i]) # "" => ItemDict(es[i], now).published_at # None

\* C2: a sync that runs alone on a clean parse with N >= 1 distinct guids, all
\* of them storable, answers (N, no error) on a feed without items and leaves
\* N items; a sync all of whose guids are stored already answers (0, no error).
SyncIdempotent ==
    \A p \in Procs :
        (Done(p) /\ call[p].op = "refresh" /\ call[p].parsed /\ call[p].alone
                 /\ call[p].n >= 1) =>
            /\ (call[p].first /\ \A i \in 1..Len(staged[p]) : Insertable(staged[p][i])) =>
                    /\ resp[p].error = None
                    /\ resp[p].new_items = call[p].n
                    /\ Cardinality(ItemsOf(Pk(p))) = call[p].n
            /\ staged[p] = <<>> =>
                    /\ resp[p].error = None
                    /\ resp[p].new_items = 0

\* C4: a Feed is saved by a creation only if validate_feed_url returned
\* is_valid = True for its URL.
SavedOnlyIfValid ==
    \A p \in Procs : Saved(p) => (call[p].v # None /\ Val(call[p].v)[1])

\* C5: a call sets last_fetched exactly when it created an item, so a feed
\* with a last_fetched has an item.
FetchedIffCreated ==
    /\ \A p \in Procs :
          (Done(p) /\ fobj[p] # None) => (call[p].marked <=> created[p] > 0)
    /\ \A f \in DOMAIN feeds : feeds[f].last_fetched # None => ItemsOf(f) # {}

\* C6: when a creation returns, the feed holds one item for each distinct guid
\* its remote served (all storable), and the refresh that follows it on the
\* same entries creates nothing.
CreateSyncs ==
    /\ \A p \in Procs :
          (Done(p) /\ Saved(p) /\ born # None /\ Val(born).feed = Pk(p)
                   /\ AllDated(Val(born).entries)) =>
              Cardinality(ItemsOf(Pk(p))) = Cardinality(Guids(Val(born).entries))
    /\ \A p \in Procs :
          (Done(p) /\ call[p].op = "refresh" /\ call[p].follows) => created[p] = 0

\* C7: a parse flagged malformed that has entries is valid for validate and
\* is no error for sync; a malformed parse without title and entries is
\* rejected by both.
TolerantParse ==
    \A p \in Procs :
        (call[p].vin # None /\ Val(call[p].vin).returned /\ Val(call[p].vin).bozo) =>
            LET usable == Val(call[p].vin).has_entries
                empty == ~Val(call[p].vin).has_entries /\ ~Val(call[p].vin).has_title
            IN  /\ (Saved(p) /\ WellFormed(Val(fobj[p]).url)) =>
                        /\ usable => Val(call[p].v)[1]
                        /\ empty => ~Val(call[p].v)[1]
                /\ (Done(p) /\ call[p].op = "refresh") =>
                        /\ usable => resp[p].error = None
                        /\ empty => resp[p].error # None

\* C8: on a well-formed URL whose fetch returns a result (not flagged
\* malformed), validate returns (True, None) exactly when the result has a
\* title or an entry, and (False, reason) otherwise.
ValidTitleOrEntries ==
    \A p \in Procs :
        (Saved(p) /\ WellFormed(Val(fobj[p]).url) /\ Val(call[p].vin).returned
                  /\ ~Val(call[p].vin).bozo) =>
            IF Val(call[p].vin).has_title \/ Val(call[p].vin).has_entries
            THEN Val(call[p].v) = <<TRUE, None>>
            ELSE ~Val(call[p].v)[1] /\ Val(call[p].v)[2] # None

\* The fetch raised, or the parse is flagged malformed and has neither title
\* nor entries.
FetchFailed(seen) ==
    ~seen.returned \/ (seen.bozo /\ ~seen.has_title /\ ~seen.has_entries)

\* C9: a sync whose fetch or parse fails answers (0, error) and has written
\* nothing, and a sync that answers an error (its parse having returned
\* entries that identify themselves) has written nothing.
FailedSyncWritesNothing ==
    \A p \in Procs :
        (Done(p) /\ call[p].op = "refresh") =>
            /\ (call[p].vin # None /\ FetchFailed(Val(call[p].vin))) =>
                    /\ resp[p].error # None
                    /\ resp[p].new_items = 0
                    /\ ~call[p].wrote
            /\ (resp[p].error # None /\ call[p].n >= 1) => ~call[p].wrote

\* C10: once a feed has a non-empty title no step of a sync changes it (stated
\* for the syncs of refresh requests, with no creation in flight).
TitleWrittenOnce ==
    [][(\A p \in Procs : call[p].op # "create") =>
            \A f \in DOMAIN feeds \cap DOMAIN feeds' :
                Truthy(feeds[f].title) => feeds'[f].title = feeds[f].title]_vars

\* The first item of the staged list st that has the guid of st[i].
FirstOf(st, i) ==
    st[CHOOSE j \in 1..i : st[j].guid = st[i].guid
                           /\ \A k \in 1..(j - 1) : st[k].guid # st[i].guid]

\* C11: when a sync that ran alone has staged several entries with the same
\* guid, the feed holds exactly one item with that guid, it has the title and
\* content of the first of them in source order, and the answer counts each
\* guid once.
FirstWins ==
    \A p \in Procs :
        (Done(p) /\ call[p].op = "refresh" /\ call[p].marked /\ call[p].alone
                 /\ \E i, j \in 1..Len(staged[p]) : i # j /\ staged[p][i].guid = staged[p][j].guid) =>
            /\ \A i \in 1..Len(staged[p]) :
                  /\ Cardinality({r \in ItemsOf(Pk(p)) : r.guid = staged[p][i].guid}) = 1
                  /\ \A r \in ItemsOf(Pk(p)) :
                        r.guid = staged[p][i].guid =>
                            /\ r.title = FirstOf(staged[p], i).title
                            /\ r.content = FirstOf(staged[p], i).content
            /\ resp[p].new_items = Cardinality({staged[p][i].guid : i \in 1..Len(staged[p])})

\* Request p takes a step of the entry loop of fetch_feed_content.
Scans(p) == pc[p] = "scan" /\ (todo'[p] # todo[p] \/ pc'[p] # pc[p])

\* The entry the loop of request p visits next raises while it is processed.
HeadRaises(p) ==
    LET entry == Head(todo[p])
    IN  /\ extract_entry_guid(entry) # ""
        /\ ~Exists(Pk(p), extract_entry_guid(entry))
        /\ ExtractRaises(entry)

\* C12: an entry whose processing raises is dropped alone: the entries staged
\* before it stay staged and the loop goes on with the next entry or, at the
\* end, with the persistence of what is staged or an answer without error;
\* the sync that met such an entry answers without error, every other entry
\* it staged is in the table and the count is the number of their guids.
EntryFailureIsolated ==
    /\ [][\A p \in Procs :
            (Scans(p) /\ HeadRaises(p)) =>
                /\ staged'[p] = staged[p]
                /\ items' = items
                /\ Tail(todo[p]) # <<>> => (pc'[p] = "scan" /\ todo'[p] = Tail(todo[p]))
                /\ Tail(todo[p]) = <<>> =>
                        \/ pc'[p] = "persist"
                        \/ pc'[p] = "done" /\ resp'[p].error = None]_vars
    /\ [](\A p \in Procs :
            (Done(p) /\ call[p].raised /\ call[p].alone) =>
                /\ resp[p].error = None
                /\ \A i \in 1..Len(staged[p]) : Exists(Pk(p), staged[p][i].guid)
                /\ resp[p].new_items =
                      Cardinality({staged[p][i].guid : i \in 1..Len(staged[p])}))

\* C13: every item staged for creation has a published_at (the current time
\* when the entry has no date that parses), and a sync that has persisted its
\* staged items has stored each of them.
UndatedGetsNow ==
    \A p \in Procs :
        /\ \A i \in 1..Len(staged[p]) :
              staged[p][i].published_at # None
        /\ (Done(p) /\ call[p].op = "refresh" /\ call[p].marked) =>
              \A i \in 1..Len(staged[p]) : Exists(Pk(p), staged[p][i].guid)

\* The guid the claimed precedence gives: the first of id, guid and link that
\* is present and not empty, or none.
FirstNonEmpty(entry) ==
    IF Truthy(entry.id) THEN entry.id
    ELSE IF Truthy(entry.guid) THEN entry.guid
    ELSE IF Truthy(entry.link) THEN entry.link
    ELSE None

\* C14: a step of the entry loop skips an entry without id, guid and link
\* and, unless the item is stored already or its processing raises, stages
\* every other entry under the first of id, guid and link that is not empty.
GuidPrecedence ==
    [][\A p \in Procs :
        Scans(p) =>
            LET entry == Head(todo[p])
                g == FirstNonEmpty(entry)
            IN  /\ g = None => staged'[p] = staged[p]
                /\ (g # None /\ ~Exists(Pk(p), Val(g)) /\ ~ExtractRaises(entry)) =>
                        /\ Len(staged'[p]) = Len(staged[p]) + 1
                        /\ staged'[p][Len(staged'[p])].guid = Val(g)]_vars

\* The content the claimed precedence gives: the value of the first element
\* of the structured content, else the summary, else the description, else ''.
StructuredFirst(entry) ==
    IF entry.content # None /\ Val(entry.content) # <<>> /\ Val(entry.content)[1] # None
    THEN Val(Val(entry.content)[1])
    ELSE IF entry.summary # None THEN Val(entry.summary)
    ELSE IF entry.description # None THEN Val(entry.description)
    ELSE ""

\* C15: the item a step of the entry loop stages has as content the first
\* value of the entry's structured content when there is one, else its
\* summary, else its description, else the empty string.
ContentPrecedence ==
    [][\A p \in Procs :
        (Scans(p) /\ Len(staged'[p]) = Len(staged[p]) + 1) =>
            staged'[p][Len(staged'[p])].content = StructuredFirst(Head(todo[p]))]_vars

\* The date the claimed fallback gives among the date fields the entries of
\* the model carry: the first of published and updated that parses, or none.
FirstParsed(entry) ==
    IF Truthy(entry.published) /\ DateOf(Val(entry.published)) # None
    THEN DateOf(Val(entry.published))
    ELSE IF Truthy(entry.updated) /\ DateOf(Val(entry.updated)) # None
    THEN DateOf(Val(entry.updated))
    ELSE None

\* C16: the item a step of the entry loop stages for an entry one of whose
\* date fields parses has as published_at the first of them that parses.
DateFallback ==
    [][\A p \in Procs :
        (Scans(p) /\ Len(staged'[p]) = Len(staged[p]) + 1
                  /\ FirstParsed(Head(todo[p])) # None) =>
            staged'[p][Len(staged'[p])].published_at = FirstParsed(Head(todo[p]))]_vars

\* C17: no step changes the url of a stored Feed.
FeedUrlImmutable ==
    [][\A f \in DOMAIN feeds \cap DOMAIN feeds' : feeds'[f].url = feeds[f].url]_vars

\* The operations that set the read flag.
ReadOps == {"feed_mark_all_read", "items_mark_all_read", "mark_as_read", "admin_items_mark"}

\* Request p runs a read-status operation in this step.
MarksRead(p) ==
    pc[p] \in {"idle", "m_save", "fm_update"} /\ pc'[p] = "done" /\ call'[p].op \in ReadOps

\* Item r is one the read-status request with bookkeeping c asks for: the
\* items of its feed, the items that match its query parameters is_read and
\* feed, its item, its selection.
Selects(c, r) ==
    LET q == Val(c.q)
    IN  CASE c.op = "feed_mark_all_read" -> r.feed = q.feed
          [] c.op = "items_mark_all_read" ->
                /\ q.is_read # None => r.is_read = (Val(q.is_read) = "true")
                /\ q.feed # None => r.feed = Val(q.feed)
          [] c.op = "mark_as_read" -> r.id = q.item
          [] c.op = "admin_items_mark" -> r.id \in q.sel

\* C18: a read-status operation changes no Feed, adds and removes no item,
\* changes nothing but is_read of an item, and leaves alone every item it
\* was not asked for.
ReadOpsFrame ==
    [][\A p \in Procs :
        MarksRead(p) =>
            /\ feeds' = feeds
            /\ {r.id : r \in items'} = {r.id : r \in items}
            /\ \A r \in items : [r EXCEPT !.is_read = TRUE] \in items' \/ r \in items'
                                  \/ [r EXCEPT !.is_read = FALSE] \in items'
            /\ \A r \in items : ~Selects(call'[p], r) => r \in items']_vars

\* Request p takes a step of a sync: of fetch_feed_content, of
\* create_feed_items or of mark_as_fetched.
Syncs(p) ==
    /\ pc[p] \in {"c_fetch", "fetch", "scan", "persist"}
    /\ pc'[p] # pc[p] \/ todo'[p] # todo[p]

\* C20: a step of a sync of feed A removes no item and changes no field of a
\* stored item (a read item stays read), adds only unread items of A, and
\* changes no Feed other than A.
SyncAddOnly ==
    [][\A p \in Procs :
        Syncs(p) =>
            /\ items \subseteq items'
            /\ \A r \in items' \ items : ~r.is_read /\ r.feed = Pk(p)
            /\ \A f \in (DOMAIN feeds \cup DOMAIN feeds') \ {Pk(p)} :
                  /\ f \in DOMAIN feeds \cap DOMAIN feeds'
                  /\ feeds'[f] = feeds[f]]_vars

\* A refresh has created an item in its feed while another feed holds an item
\* that was marked read.
SyncAddOnlyWitness ==
    \E p \in Procs :
        /\ Done(p) /\ call[p].op = "refresh" /\ call[p].marked /\ created[p] = 1
        /\ \E r \in ItemsOf(Pk(p)) : ~r.is_read
        /\ \E r \in items : r.feed # Pk(p) /\ r.is_read

\* The state of the sync of request p: FETCHING before the parse, EXTRACTING
\* (with DEDUPING) in the entry loop, PERSISTING in create_feed_items, and at
\* its end FAILED with an error or DONE without.
SyncState(p) ==
    CASE pc[p] \in {"c_fetch", "fetch"} -> "FETCHING"
      [] pc[p] = "scan" -> "EXTRACTING"
      [] pc[p] = "persist" -> "PERSISTING"
      [] pc[p] = "done" -> IF resp[p].error # None THEN "FAILED" ELSE "DONE"
      [] OTHER -> "NONE"

\* C19 (its order of states): a sync fails only at its fetch and parse, with
\* count 0; once it extracts entries that identify themselves it goes on to
\* persist or ends DONE, and from persisting it ends DONE, without error; and
\* no step of a sync raises an exception out of the handler.
SyncStateMachine ==
    [][\A p \in Procs :
        (call[p].op \in {"create", "refresh"} /\ pc'[p] # pc[p]) =>
            /\ SyncState(p) # "NONE" => resp'[p].kind # "raised"
            /\ SyncState(p) = "FETCHING" =>
                    SyncState(p)' \in {"FAILED", "EXTRACTING", "PERSISTING", "DONE"}
            /\ (SyncState(p) = "EXTRACTING" /\ call[p].n >= 1) =>
                    SyncState(p)' \in {"EXTRACTING", "PERSISTING", "DONE"}
            /\ SyncState(p) = "PERSISTING" => SyncState(p)' = "DONE"
            /\ SyncState(p)' = "FAILED" => resp'[p].new_items = 0]_vars

====
